---- MODULE Spec2Model ----
(***************************************************************************)
(* Wolf and sheep simulation (src/main.py).                                *)
(*                                                                         *)
(* Coordinates and distances are fixed-point numbers: a float v of the     *)
(* program is the integer v * Scale.  The absent value None of an optional *)
(* command-line argument is the empty tuple <<>>, a supplied value v is    *)
(* <<v>>; a sheep is referred to by its index in sheep_list and the None   *)
(* of closest_sheep is index 0.                                            *)
(***************************************************************************)
EXTENDS Integers, Sequences, FiniteSets, TLC

\* ------------------------------------------------------------------ bounds
\* Largest value of -r / --rounds that is tried.
MaxRoundsArg == 2
\* Largest value of -s / --sheep that is tried.
MaxSheepArg == 2
\* max_rounds when -r is not given (50 in main.py:187, scaled down).
DefaultMaxRounds == 2
\* num_sheep when -s is not given (15 in main.py:195, scaled down).
DefaultNumSheep == 1
\* Largest value of -r / --rounds that is tried in the pursuit scenario.
ScenarioRounds == 6
\* Number of moves of live sheep (one random.choice call each) a run with a
\* sheep step other than 0 is followed for.
MaxDraws == 3

\* ------------------------------------------------------- number representation
\* round(v, 3) of save_to_json keeps thousandths.
Milli == 1000
\* Fixed-point resolution of a coordinate: half a thousandth.
Scale == 2 * Milli

\* a / b rounded to the nearest integer (b > 0), halves away from zero.
RoundDiv(a, b) == IF a >= 0 THEN (2 * a + b) \div (2 * b)
                             ELSE -((2 * (-a) + b) \div (2 * b))

RECURSIVE SqrtSearch(_, _, _)
\* The largest r in lo..hi with r * r <= n.
SqrtSearch(n, lo, hi) ==
    IF lo >= hi THEN lo
    ELSE LET mid == (lo + hi + 1) \div 2
         IN IF mid * mid <= n THEN SqrtSearch(n, mid, hi)
                              ELSE SqrtSearch(n, lo, mid - 1)

\* math.sqrt on fixed-point values: the square root rounded to nearest.
sqrt(n) == LET r == SqrtSearch(n, 0, 46340)
           IN IF n - r * r > r THEN r + 1 ELSE r

\* round(v, 3): v (in 1/Scale) rounded to thousandths (in 1/Milli).
round3(v) == RoundDiv(v * Milli, Scale)

\* float('inf') of closest_sheep: larger than every distance.
inf == -1

\* ------------------------------------------------------------------- inputs
None == <<>>
Some(v) == <<v>>
\* Python truth value of an optional integer argument: None and 0 are false.
Truthy(a) == a # None /\ a[1] # 0

ArgRounds == {None} \cup {Some(v) : v \in -1 .. MaxRoundsArg}
ArgSheep == {None} \cup {Some(v) : v \in -1 .. MaxSheepArg}

\* Contents of a configuration file: [Sheep] InitPosLimit, MoveDist; [Wolf] MoveDist.
ConfigFiles == [exists : BOOLEAN,
                InitPosLimit : {-Scale, Scale},
                SheepMoveDist : {-(Scale \div 2), 0, Scale \div 2},
                WolfMoveDist : {0, Scale}]
ArgConfig == {None} \cup {Some(c) : c \in ConfigFiles}

Directions == {"north", "south", "east", "west"}

\* Values random.uniform(-limit, limit) is drawn from.
InitCoords(limit) == {0, limit}

VARIABLES
    pc,               \* position in main()
    args,             \* parsed command line: [config, rounds, sheep]
    init_pos_limit, move_dist_sheep, move_dist_wolf,
    max_rounds, num_sheep,
    num_alive_sheep,
    sheep_list,       \* sequence of [x, y, is_alive]
    wolf,             \* [x, y]
    round_num,        \* loop variable of the for loop (0: not yet bound)
    iterations,       \* number of times the loop body was entered
    draws,            \* number of moves of live sheep so far
    closest,          \* local of the round: index of the selected sheep
    distance,         \* local of the round: distance to the selected sheep
    pos_json,         \* records appended by save_to_json
    alive_csv,        \* records appended by save_to_csv
    log               \* logging calls, in order

vars == <<pc, args, init_pos_limit, move_dist_sheep, move_dist_wolf, max_rounds,
          num_sheep, num_alive_sheep, sheep_list, wolf, round_num, iterations,
          draws, closest, distance, pos_json, alive_csv, log>>

config_vars == <<init_pos_limit, move_dist_sheep, move_dist_wolf>>
sim_vars == <<num_alive_sheep, sheep_list, wolf>>
round_vars == <<round_num, iterations, draws, closest, distance>>
file_vars == <<pos_json, alive_csv>>

Msg(level, text, n) == [level |-> level, text |-> text, n |-> n]

\* ------------------------------------------------------------ pure functions
Animal(x, y) == [x |-> x, y |-> y]

Sheep(x, y) == [x |-> x, y |-> y, is_alive |-> TRUE]

euclidean_distance(x1, y1, x2, y2) ==
    sqrt((x1 - x2) * (x1 - x2) + (y1 - y2) * (y1 - y2))

\* distance * cos(atan2(dy, dx)) and distance * sin(atan2(dy, dx));
\* atan2(0, 0) is 0.
bearing_step(dx, dy, dist) ==
    IF dx = 0 /\ dy = 0 THEN <<dist, 0>>
    ELSE LET h == sqrt(dx * dx + dy * dy)
         IN <<RoundDiv(dist * dx, h), RoundDiv(dist * dy, h)>>

move_towards_mut(w, target_x, target_y, dist) ==
    LET step == bearing_step(target_x - w.x, target_y - w.y, dist)
    IN Animal(w.x + step[2], w.y + step[1])

move_towards(w, target_x, target_y, dist) ==
    LET step == bearing_step(target_x - w.x, target_y - w.y, dist)
    IN Animal(w.x + step[1], w.y + step[2])

move_randomly_mut(s, direction, dist) ==
    CASE direction = "north" -> [s EXCEPT !.y = @ + Scale \div 2]
      [] direction = "south" -> [s EXCEPT !.y = @ - Scale \div 2]
      [] direction = "east" -> [s EXCEPT !.x = @ + Scale \div 2]
      [] direction = "west" -> [s EXCEPT !.x = @ - Scale \div 2]

move_randomly(s, direction, dist) ==
    CASE direction = "north" -> [s EXCEPT !.y = @ + dist]
      [] direction = "south" -> [s EXCEPT !.y = @ - dist]
      [] direction = "east" -> [s EXCEPT !.x = @ + dist]
      [] direction = "west" -> [s EXCEPT !.x = @ - dist]

is_closer_mut(d, min_distance) == min_distance = inf \/ d <= min_distance
\* distance < min_distance
is_closer(d, min_distance) == min_distance = inf \/ d < min_distance

is_candidate_mut(s) == TRUE
\* and sheep.is_alive
is_candidate(s) == s.is_alive

RECURSIVE closest_scan(_, _, _, _, _)
closest_scan(w, sl, i, min_distance, best) ==
    IF i > Len(sl) THEN best
    ELSE LET d == euclidean_distance(w.x, w.y, sl[i].x, sl[i].y)
         IN IF is_closer(d, min_distance) /\ is_candidate(sl[i])
            THEN closest_scan(w, sl, i + 1, d, i)
            ELSE closest_scan(w, sl, i + 1, min_distance, best)

closest_sheep(w, sl) == closest_scan(w, sl, 1, inf, 0)

is_caught_mut(d, step) == d < step
is_caught_far_mut(d, step) == d <= 2 * step
is_caught_apart_mut(d, step) == 0 < d /\ d <= step
\* distance <= move_dist_wolf
is_caught(d, step) == d <= step

sheep_moves_mut(s) == TRUE
\* if sheep.is_alive
sheep_moves(s) == s.is_alive

range_has_next_mut(r, limit) == r < limit + 2
range_has_next_le_mut(r, limit) == r <= limit
\* for round_num in range(1, max_rounds + 1)
range_has_next(r, limit) == r < limit

decrement_mut(n) == n
decrement_twice_mut(n) == n - 2
\* num_alive_sheep -= 1
decrement(n) == n - 1

wolf_after_capture_mut(w, s, step) == move_towards(w, s.x, s.y, step)
\* wolf.x = closest.x; wolf.y = closest.y
wolf_after_capture(w, s, step) == Animal(s.x, s.y)

all_eaten_mut(n) == n < 0
\* if num_alive_sheep == 0
all_eaten(n) == n = 0

invalid_init_pos_limit(v) == v < 0

invalid_move_dist_sheep(v) == v < 0

invalid_move_dist_wolf_mut(v) == v < 0
\* if move_dist_wolf <= 0
invalid_move_dist_wolf(v) == v <= 0

json_record_mut(r, w, sl) ==
    [round_no |-> r,
     wolf_pos |-> [x |-> round3(w.x), y |-> round3(w.y)],
     sheep_pos |-> [i \in 1 .. Len(sl) |->
                      Some([x |-> round3(sl[i].x), y |-> round3(sl[i].y)])]]

json_record(r, w, sl) ==
    [round_no |-> r,
     wolf_pos |-> [x |-> round3(w.x), y |-> round3(w.y)],
     sheep_pos |-> [i \in 1 .. Len(sl) |->
                      IF sl[i].is_alive
                      THEN Some([x |-> round3(sl[i].x), y |-> round3(sl[i].y)])
                      ELSE None]]

csv_record(r, n) == <<r, n>>

\* ---------------------------------------------------------------------- Init
Init ==
    /\ pc = "config"
    /\ args \in [config : ArgConfig, rounds : ArgRounds, sheep : ArgSheep]
    /\ init_pos_limit = 0
    /\ move_dist_sheep = 0
    /\ move_dist_wolf = 0
    /\ max_rounds = 0
    /\ num_sheep = 0
    /\ num_alive_sheep = 0
    /\ sheep_list = <<>>
    /\ wolf = Animal(0, 0)
    /\ round_num = 0
    /\ iterations = 0
    /\ draws = 0
    /\ closest = 0
    /\ distance = 0
    /\ pos_json = <<>>
    /\ alive_csv = <<>>
    /\ log = <<>>

\* ------------------------------------------------------------------- actions
\* main.py:151-179
LoadConfig ==
    /\ pc = "config"
    /\ IF args.config # None
       THEN LET c == args.config[1]
            IN IF ~c.exists
               THEN /\ log' = Append(log, Msg("critical", "Config file does not exist", 0))
                    /\ pc' = "exit"
                    /\ UNCHANGED config_vars
               ELSE /\ init_pos_limit' = c.InitPosLimit
                    /\ move_dist_sheep' = c.SheepMoveDist
                    /\ move_dist_wolf' = c.WolfMoveDist
                    /\ IF invalid_init_pos_limit(c.InitPosLimit)
                       THEN /\ log' = Append(log, Msg("critical", "Invalid initial position value", 0))
                            /\ pc' = "exit"
                       ELSE IF invalid_move_dist_sheep(c.SheepMoveDist)
                       THEN /\ log' = Append(log, Msg("critical", "Invalid sheep move distance value", 0))
                            /\ pc' = "exit"
                       ELSE IF invalid_move_dist_wolf(c.WolfMoveDist)
                       THEN /\ log' = Append(log, Msg("critical", "Invalid wolf move distance value", 0))
                            /\ pc' = "exit"
                       ELSE /\ log' = Append(log, Msg("debug", "Configuration file loaded", 0))
                            /\ pc' = "rounds"
       ELSE /\ init_pos_limit' = 10 * Scale
            /\ move_dist_sheep' = Scale \div 2
            /\ move_dist_wolf' = Scale
            /\ pc' = "rounds"
            /\ UNCHANGED log
    /\ UNCHANGED <<args, max_rounds, num_sheep, sim_vars, round_vars, file_vars>>

\* main.py:181-187
CheckRounds ==
    /\ pc = "rounds"
    /\ IF Truthy(args.rounds)
       THEN /\ max_rounds' = args.rounds[1]
            /\ IF args.rounds[1] <= 0
               THEN /\ log' = Append(log, Msg("critical", "Invalid max rounds value", 0))
                    /\ pc' = "exit"
               ELSE /\ pc' = "sheep"
                    /\ UNCHANGED log
       ELSE /\ max_rounds' = DefaultMaxRounds
            /\ pc' = "sheep"
            /\ UNCHANGED log
    /\ UNCHANGED <<args, config_vars, num_sheep, sim_vars, round_vars, file_vars>>

\* main.py:189-195
CheckSheep ==
    /\ pc = "sheep"
    /\ IF Truthy(args.sheep)
       THEN /\ num_sheep' = args.sheep[1]
            /\ IF args.sheep[1] <= 0
               THEN /\ log' = Append(log, Msg("critical", "Invalid sheep number value", 0))
                    /\ pc' = "exit"
               ELSE /\ pc' = "init"
                    /\ UNCHANGED log
       ELSE /\ num_sheep' = DefaultNumSheep
            /\ pc' = "init"
            /\ UNCHANGED log
    /\ UNCHANGED <<args, config_vars, max_rounds, sim_vars, round_vars, file_vars>>

\* main.py:197-205
Initialise ==
    /\ pc = "init"
    /\ num_alive_sheep' = num_sheep
    /\ \E xs, ys \in [1 .. num_sheep -> InitCoords(init_pos_limit)] :
           sheep_list' = [i \in 1 .. num_sheep |-> Sheep(xs[i], ys[i])]
    /\ wolf' = Animal(0, 0)
    /\ log' = Append(log, Msg("info", "Initialized sheep positions", 0))
    /\ pc' = "loop"
    /\ UNCHANGED <<args, config_vars, max_rounds, num_sheep, round_vars, file_vars>>

\* main.py:207-212
LoopHead ==
    /\ pc = "loop"
    /\ IF range_has_next(round_num, max_rounds)
       THEN /\ round_num' = round_num + 1
            /\ iterations' = iterations + 1
            /\ IF all_eaten(num_alive_sheep)
               THEN /\ log' = Append(log, Msg("info", "All sheep have been eaten. Simulation over.", 0))
                    /\ pc' = "after"
               ELSE /\ log' = Append(log, Msg("info", "Starting round", round_num + 1))
                    /\ pc' = "move"
       ELSE /\ pc' = "after"
            /\ UNCHANGED <<round_num, iterations, log>>
    /\ UNCHANGED <<args, config_vars, max_rounds, num_sheep, sim_vars, draws,
                   closest, distance, file_vars>>

\* main.py:214-220
MoveSheep ==
    /\ pc = "move"
    /\ move_dist_sheep = 0 \/ draws + num_alive_sheep <= MaxDraws
    /\ draws' = draws + num_alive_sheep
    /\ \E dirs \in [1 .. Len(sheep_list) -> Directions] :
           sheep_list' = [i \in 1 .. Len(sheep_list) |->
                            IF sheep_moves(sheep_list[i])
                            THEN move_randomly(sheep_list[i], dirs[i], move_dist_sheep)
                            ELSE sheep_list[i]]
    /\ pc' = "wolf"
    /\ UNCHANGED <<args, config_vars, max_rounds, num_sheep, num_alive_sheep, wolf,
                   round_num, iterations, closest, distance, file_vars, log>>

\* main.py:222-245
WolfStep ==
    /\ pc = "wolf"
    /\ LET c == closest_sheep(wolf, sheep_list)
       IN /\ closest' = c
          /\ IF c = 0
             THEN \* closest.x on None raises AttributeError
                  /\ pc' = "crashed"
                  /\ UNCHANGED <<distance, sim_vars, log>>
             ELSE LET s == sheep_list[c]
                      d == euclidean_distance(wolf.x, wolf.y, s.x, s.y)
                  IN /\ distance' = d
                     /\ IF is_caught(d, move_dist_wolf)
                        THEN /\ sheep_list' = [sheep_list EXCEPT ![c].is_alive = FALSE]
                             /\ wolf' = wolf_after_capture(wolf, s, move_dist_wolf)
                             /\ num_alive_sheep' = decrement(num_alive_sheep)
                             /\ log' = log \o <<Msg("info", "Wolf caught a sheep", c),
                                                Msg("info", "Number of alive sheep", decrement(num_alive_sheep))>>
                        ELSE /\ wolf' = move_towards(wolf, s.x, s.y, move_dist_wolf)
                             /\ log' = log \o <<Msg("info", "Wolf chasing sheep", c),
                                                Msg("info", "Number of alive sheep", num_alive_sheep)>>
                             /\ UNCHANGED <<sheep_list, num_alive_sheep>>
                     /\ pc' = "save"
    /\ UNCHANGED <<args, config_vars, max_rounds, num_sheep, round_num, iterations,
                   draws, file_vars>>

\* main.py:247-252
SaveRound ==
    /\ pc = "save"
    /\ pos_json' = Append(pos_json, json_record(round_num, wolf, sheep_list))
    /\ alive_csv' = Append(alive_csv, csv_record(round_num, num_alive_sheep))
    /\ pc' = "loop"
    /\ UNCHANGED <<args, config_vars, max_rounds, num_sheep, sim_vars, round_vars, log>>

\* main.py:254-255
Finish ==
    /\ pc = "after"
    /\ IF num_alive_sheep # 0
       THEN log' = Append(log, Msg("info", "Maximum rounds reached. Simulation over.", 0))
       ELSE UNCHANGED log
    /\ pc' = "done"
    /\ UNCHANGED <<args, config_vars, max_rounds, num_sheep, sim_vars, round_vars,
                   file_vars>>

Next ==
    \/ LoadConfig
    \/ CheckRounds
    \/ CheckSheep
    \/ Initialise
    \/ LoopHead
    \/ MoveSheep
    \/ WolfStep
    \/ SaveRound
    \/ Finish

Spec == Init /\ [][Next]_vars

\* The pursuit scenario: one sheep that does not move, drawn from a square
\* of half-range 5.0, a wolf step of 1.0 and up to ScenarioRounds rounds.
ScenarioArgs ==
    [config : {Some([exists |-> TRUE, InitPosLimit |-> 5 * Scale,
                     SheepMoveDist |-> 0, WolfMoveDist |-> Scale])},
     rounds : {Some(r) : r \in 1 .. ScenarioRounds},
     sheep : {Some(1)}]

ScenarioInit ==
    /\ pc = "config"
    /\ args \in ScenarioArgs
    /\ init_pos_limit = 0
    /\ move_dist_sheep = 0
    /\ move_dist_wolf = 0
    /\ max_rounds = 0
    /\ num_sheep = 0
    /\ num_alive_sheep = 0
    /\ sheep_list = <<>>
    /\ wolf = Animal(0, 0)
    /\ round_num = 0
    /\ iterations = 0
    /\ draws = 0
    /\ closest = 0
    /\ distance = 0
    /\ pos_json = <<>>
    /\ alive_csv = <<>>
    /\ log = <<>>

ScenarioSpec == ScenarioInit /\ [][Next]_vars

\* ------------------------------------------------------------------- claims
\* Positions of main() at which the simulation state exists.
Simulating == pc \in {"loop", "move", "wolf", "save", "after", "done"}
InRound == pc \in {"move", "wolf", "save"}

LiveSheep(sl) == {i \in 1 .. Len(sl) : sl[i].is_alive}
DeadSheep(sl) == {i \in 1 .. Len(sl) : ~sl[i].is_alive}
DistanceTo(w, sl, i) == euclidean_distance(w.x, w.y, sl[i].x, sl[i].y)
\* Sheep that die in the step.
Dying == {i \in 1 .. Len(sheep_list) : sheep_list[i].is_alive /\ ~sheep_list'[i].is_alive}
\* The messages the step logs.
Logged == {log'[k] : k \in Len(log) + 1 .. Len(log')}
CaptureLogged == \E m \in Logged : m.text = "Wolf caught a sheep"
PresentIn(snapshot) == {i \in DOMAIN snapshot.sheep_pos : snapshot.sheep_pos[i] # None}

\* C1: after initialisation, at every round boundary and wherever the live
\* count is logged or persisted, num_alive_sheep is the number of sheep of
\* sheep_list whose is_alive is true.
C1_LiveCountMatchesFlags ==
    /\ Simulating => num_alive_sheep = Cardinality(LiveSheep(sheep_list))
    /\ pc = "save" =>
         /\ log[Len(log)].text = "Number of alive sheep"
         /\ log[Len(log)].n = Cardinality(LiveSheep(sheep_list))
    /\ \A k \in 1 .. Len(alive_csv) :
         alive_csv[k][2] = Cardinality(PresentIn(pos_json[k]))

C1_Witness ==
    /\ pc = "loop"
    /\ Len(alive_csv) >= 1
    /\ num_alive_sheep < num_sheep
    /\ num_alive_sheep > 0

\* C2: in every executed round the wolf captures a sheep if and only if the
\* distance from the wolf to the nearest live sheep, after the sheep moved
\* and before the wolf moves, is at most the wolf step distance.
C2_CaptureIffWithinStep ==
    [][(pc = "wolf" /\ pc' = "save") =>
         ((Dying # {}) <=>
            (\E i \in LiveSheep(sheep_list) :
                 DistanceTo(wolf, sheep_list, i) <= move_dist_wolf))]_vars

\* A capture at a distance of exactly the wolf step distance.
C2_Witness ==
    /\ pc = "save"
    /\ distance = move_dist_wolf
    /\ ~sheep_list[closest].is_alive

\* C3: the live count after a round is the live count before it minus 1
\* if a capture occurred in the round and unchanged otherwise; at most one
\* sheep dies per round.
C3_LiveCountStep ==
    [][Simulating =>
         /\ Cardinality(Dying) = (IF CaptureLogged THEN 1 ELSE 0)
         /\ num_alive_sheep' = num_alive_sheep - (IF CaptureLogged THEN 1 ELSE 0)
         /\ CaptureLogged => pc = "wolf"]_vars

C3_Witness ==
    /\ pc = "save"
    /\ num_sheep = 2
    /\ log[Len(log) - 1].text = "Wolf caught a sheep"
    /\ num_alive_sheep = 1

\* C4: at the end of a round with a capture the wolf is exactly at the
\* position the captured sheep had when it was captured.
C4_WolfOnCapturedSheep ==
    /\ (pc = "save" /\ log[Len(log) - 1].text = "Wolf caught a sheep") =>
         /\ wolf.x = sheep_list[log[Len(log) - 1].n].x
         /\ wolf.y = sheep_list[log[Len(log) - 1].n].y
    /\ (pc = "loop" /\ Len(pos_json) > 0
        /\ log[Len(log) - 1].text = "Wolf caught a sheep") =>
         /\ pos_json[Len(pos_json)].wolf_pos.x = round3(sheep_list[log[Len(log) - 1].n].x)
         /\ pos_json[Len(pos_json)].wolf_pos.y = round3(sheep_list[log[Len(log) - 1].n].y)

\* A capture at less than a full wolf step.
C4_Witness ==
    /\ pc = "save"
    /\ log[Len(log) - 1].text = "Wolf caught a sheep"
    /\ distance > 0
    /\ distance < move_dist_wolf

\* C5: closest_sheep returns a live sheep at minimal distance from the wolf
\* among the live sheep, the lowest index among those at that distance,
\* and never a dead sheep.
C5_ClosestIsFirstNearestLive ==
    Simulating =>
      LET c == closest_sheep(wolf, sheep_list)
          live == LiveSheep(sheep_list)
      IN IF live = {} THEN c = 0
         ELSE /\ c \in live
              /\ \A j \in live :
                   /\ DistanceTo(wolf, sheep_list, c) <= DistanceTo(wolf, sheep_list, j)
                   /\ DistanceTo(wolf, sheep_list, j) = DistanceTo(wolf, sheep_list, c)
                        => c <= j

\* Two live sheep at different places and at the same, minimal, distance
\* when the wolf selects.
C5_Witness ==
    /\ pc = "wolf"
    /\ \E i, j \in LiveSheep(sheep_list) :
         /\ i < j
         /\ sheep_list[i].x # sheep_list[j].x
         /\ DistanceTo(wolf, sheep_list, i) = DistanceTo(wolf, sheep_list, j)
         /\ closest_sheep(wolf, sheep_list) = i

\* A dead sheep strictly closer to the wolf than every live sheep when the
\* wolf selects.
C5_DeadCloser ==
    /\ pc = "wolf"
    /\ LiveSheep(sheep_list) # {}
    /\ \E d \in DeadSheep(sheep_list) : \A j \in LiveSheep(sheep_list) :
         DistanceTo(wolf, sheep_list, d) < DistanceTo(wolf, sheep_list, j)

\* C6 as stated: the loop runs at most round-limit + 1 iterations and ends
\* with fewer rounds executed than the round limit if and only if the live
\* count reached 0.
C6_EarlyIffExtinct ==
    /\ Simulating => iterations <= max_rounds + 1
    /\ pc = "done" => ((Len(alive_csv) < max_rounds) <=> (num_alive_sheep = 0))

\* C6 amended: the loop runs at most round-limit + 1 iterations and ends
\* with fewer rounds executed than the round limit if and only if the live
\* count reached 0 at the end of a round numbered below the round limit.
C6_EarlyIffExtinctBeforeLimit ==
    /\ Simulating => iterations <= max_rounds + 1
    /\ pc = "done" =>
         ((Len(alive_csv) < max_rounds) <=>
            (\E k \in 1 .. Len(alive_csv) :
                 alive_csv[k][2] = 0 /\ alive_csv[k][1] < max_rounds))

C6_Witness ==
    /\ pc = "done"
    /\ Len(alive_csv) < max_rounds
    /\ num_alive_sheep = 0

\* C7: a run whose supplied round limit is 0 or negative exits before the
\* simulation loop and executes no round.
C7_NonPositiveRoundsRejected ==
    (args.rounds # None /\ args.rounds[1] <= 0) =>
        /\ ~Simulating
        /\ iterations = 0
        /\ alive_csv = <<>>

\* C8: a run whose supplied population size is 0 or negative exits before
\* the simulation loop, creates no sheep and executes no round.
C8_NonPositiveSheepRejected ==
    (args.sheep # None /\ args.sheep[1] <= 0) =>
        /\ ~Simulating
        /\ sheep_list = <<>>
        /\ iterations = 0

\* C9: every sheep starts alive; is_alive goes from true to false at most
\* once and never back; a dead sheep keeps its index and its position.
C9_LivenessMonotonic ==
    /\ [](pc = "loop" /\ round_num = 0 =>
            \A i \in 1 .. Len(sheep_list) : sheep_list[i].is_alive)
    /\ [][Simulating =>
            /\ Len(sheep_list') = Len(sheep_list)
            /\ \A i \in DeadSheep(sheep_list) : sheep_list'[i] = sheep_list[i]]_vars

\* A later round in which a live sheep has moved next to a dead one.
C9_Witness ==
    /\ pc = "wolf"
    /\ round_num >= 2
    /\ move_dist_sheep > 0
    /\ DeadSheep(sheep_list) # {}
    /\ LiveSheep(sheep_list) # {}

\* C10: the round counter is 1 in the first round, grows by exactly 1 per
\* completed round and is at most the round limit in every round that is
\* executed, logged or persisted.
C10_RoundCounter ==
    /\ InRound =>
         /\ round_num = Len(alive_csv) + 1
         /\ round_num <= max_rounds
         /\ \E k \in 1 .. Len(log) :
              log[k].text = "Starting round" /\ log[k].n = round_num
    /\ \A k \in 1 .. Len(log) :
         log[k].text = "Starting round" => log[k].n \in 1 .. max_rounds
    /\ Len(pos_json) = Len(alive_csv)
    /\ \A k \in 1 .. Len(alive_csv) :
         /\ alive_csv[k][1] = k
         /\ pos_json[k].round_no = k
         /\ k <= max_rounds

C10_Witness ==
    /\ pc = "save"
    /\ round_num = 2
    /\ round_num = max_rounds

LastLogged == log[Len(log)].text
EatenMessage == "All sheep have been eaten. Simulation over."
LimitMessage == "Maximum rounds reached. Simulation over."

\* C11: a run that entered the simulation loop ends with a termination
\* message: 'All sheep have been eaten' when it ends with live count 0 and
\* 'Maximum rounds reached' when it ends with live sheep left.
C11_TerminationLogged ==
    pc = "done" =>
        IF num_alive_sheep = 0 THEN LastLogged = EatenMessage
                               ELSE LastLogged = LimitMessage

\* The floating-point tolerance of a distance: one thousandth.
Tolerance == Scale \div Milli
Near(a, b) == a - b <= Tolerance /\ b - a <= Tolerance
\* The round that just ended was a pursuit of sheep_list[closest].
Chased == pc = "save" /\ sheep_list[closest].is_alive

\* C12 as stated: after a pursuit move that did not start on the target,
\* the distance from the wolf to the target is the wolf step distance.
C12_NewDistanceIsStep ==
    (Chased /\ distance > 0) =>
        Near(DistanceTo(wolf, sheep_list, closest), move_dist_wolf)

\* C12 amended: after a pursuit move that did not start on the target,
\* the distance from the wolf to the target is the distance before the
\* move less the wolf step distance.
C12_NewDistanceIsOldLessStep ==
    (Chased /\ distance > 0) =>
        Near(DistanceTo(wolf, sheep_list, closest), distance - move_dist_wolf)

\* A pursuit of a sheep that is on neither axis through the wolf.
C12_Witness ==
    /\ Chased
    /\ distance > 2 * move_dist_wolf
    /\ sheep_list[closest].x # wolf.x
    /\ sheep_list[closest].y # wolf.y
    /\ sheep_list[closest].x - wolf.x # sheep_list[closest].y - wolf.y

\* The only sheep is at (5, 0), does not move, and the wolf step is 1.0.
SheepFiveAway ==
    /\ Simulating
    /\ num_sheep = 1
    /\ sheep_list[1].x = 5 * Scale
    /\ sheep_list[1].y = 0
    /\ move_dist_sheep = 0
    /\ move_dist_wolf = Scale
Pursuits == Cardinality({k \in 1 .. Len(log) : log[k].text = "Wolf chasing sheep"})

\* C13: with one sheep at (5, 0) that does not move, the wolf at (0, 0)
\* and a wolf step of 1.0, rounds 1 to 4 are pursuits without a capture,
\* and the capture happens only at a distance of at most 1.0.
C13_FourPursuitsBeforeCapture ==
    SheepFiveAway =>
        /\ \A k \in 1 .. Len(alive_csv) : k <= 4 => alive_csv[k][2] = 1
        /\ ~sheep_list[1].is_alive =>
             /\ round_num >= 5
             /\ Pursuits >= 4
             /\ distance <= move_dist_wolf

\* The sheep at (5, 0) was captured in round 5.
C13_Witness ==
    /\ SheepFiveAway
    /\ pc = "done"
    /\ Len(alive_csv) >= 5
    /\ alive_csv[4] = <<4, 1>>
    /\ alive_csv[5] = <<5, 0>>

\* C14: with a sheep step distance of 0 no step of the simulation changes
\* the position of any sheep, whatever directions are chosen.
C14_ZeroStepSheepStay ==
    [][(Simulating /\ move_dist_sheep = 0) =>
         \A i \in 1 .. Len(sheep_list) :
             /\ sheep_list'[i].x = sheep_list[i].x
             /\ sheep_list'[i].y = sheep_list[i].y]_vars

\* Two sheep with step 0 after their second call of move_randomly.
C14_Witness ==
    /\ pc = "wolf"
    /\ move_dist_sheep = 0
    /\ round_num = 2
    /\ Cardinality(LiveSheep(sheep_list)) = 2

\* C16: closest_sheep returns None only when no sheep is alive, and in
\* every executed round the selection returns a live sheep, so closest.x
\* and closest.y are never read from None.
C16_SelectionNeverNone ==
    /\ pc # "crashed"
    /\ Simulating =>
         (closest_sheep(wolf, sheep_list) = 0 => LiveSheep(sheep_list) = {})
    /\ pc = "wolf" => closest_sheep(wolf, sheep_list) \in LiveSheep(sheep_list)
    /\ pc = "save" => closest \in 1 .. Len(sheep_list)

\* A second round whose selection returned the live sheep next to a dead one.
C16_Witness ==
    /\ pc = "save"
    /\ round_num = 2
    /\ DeadSheep(sheep_list) # {}
    /\ closest \in LiveSheep(sheep_list)

InvalidConfigSupplied ==
    /\ args.config # None
    /\ args.config[1].exists
    /\ \/ args.config[1].InitPosLimit < 0
       \/ args.config[1].SheepMoveDist < 0
       \/ args.config[1].WolfMoveDist <= 0

\* C17: with a configuration file whose initial-position half-range is
\* < 0, whose sheep step is < 0 or whose wolf step is <= 0 the process exits
\* before the loop: no sheep is created, no round runs, nothing is saved.
C17_InvalidConfigRejected ==
    InvalidConfigSupplied =>
        /\ pc \in {"config", "exit"}
        /\ sheep_list = <<>>
        /\ iterations = 0
        /\ pos_json = <<>>
        /\ alive_csv = <<>>

\* A file whose only invalid value is a wolf step of 0 was rejected.
C17_Witness ==
    /\ pc = "exit"
    /\ args.config # None
    /\ args.config[1].exists
    /\ args.config[1].InitPosLimit >= 0
    /\ args.config[1].SheepMoveDist >= 0
    /\ args.config[1].WolfMoveDist = 0

RecordsWellFormed ==
    /\ Len(pos_json) = Len(alive_csv)
    /\ InRound => Len(alive_csv) = round_num - 1
    /\ \A k \in 1 .. Len(alive_csv) :
         /\ alive_csv[k][1] = k
         /\ pos_json[k].round_no = k
         /\ DOMAIN pos_json[k].sheep_pos = 1 .. num_sheep
         /\ k > 1 => alive_csv[k][2] <= alive_csv[k - 1][2]
    /\ (pc = "loop" /\ Len(pos_json) > 0) =>
         LET last == pos_json[Len(pos_json)]
         IN /\ alive_csv[Len(alive_csv)][2] = Cardinality(LiveSheep(sheep_list))
            /\ \A i \in 1 .. Len(sheep_list) :
                 last.sheep_pos[i] =
                    IF sheep_list[i].is_alive
                    THEN Some([x |-> round3(sheep_list[i].x),
                               y |-> round3(sheep_list[i].y)])
                    ELSE None
            /\ log[Len(log) - 1].text = "Wolf caught a sheep" =>
                 last.sheep_pos[log[Len(log) - 1].n] = None

RecordsAppendedOncePerRound ==
    (pos_json' # pos_json \/ alive_csv' # alive_csv) =>
        /\ pc = "save"
        /\ pc' = "loop"
        /\ Len(pos_json') = Len(pos_json) + 1
        /\ Len(alive_csv') = Len(alive_csv) + 1
        /\ SubSeq(pos_json', 1, Len(pos_json)) = pos_json
        /\ SubSeq(alive_csv', 1, Len(alive_csv)) = alive_csv

\* C18: each completed round appends exactly one (round, live count) record
\* and one positional snapshot, after the capture-or-pursuit step and before
\* the next round's sheep movement; round numbers are 1, 2, ..., k, live
\* counts do not increase, and a snapshot has one entry per sheep, in order,
\* that is null exactly for the sheep dead at the end of its round.
C18_RoundRecords == []RecordsWellFormed /\ [][RecordsAppendedOncePerRound]_vars

\* Two rounds saved; the second captured sheep 1 and kept sheep 2.
C18_Witness ==
    /\ pc = "loop"
    /\ Len(pos_json) = 2
    /\ PresentIn(pos_json[1]) = {1, 2}
    /\ PresentIn(pos_json[2]) = {2}

\* C19: with a wolf step > 0 move_towards is never called with the wolf on
\* the target: the distance before a pursuit move is never 0.
C19_NoPursuitFromTarget ==
    (Chased /\ move_dist_wolf > 0) => distance > 0

\* A sheep on the wolf's position was captured.
C19_Witness ==
    /\ pc = "save"
    /\ move_dist_wolf > 0
    /\ distance = 0
    /\ wolf.x = sheep_list[closest].x
    /\ wolf.y = sheep_list[closest].y
    /\ ~sheep_list[closest].is_alive

\* C20: the live count after round r is at least the population size less
\* r, so no run is extinct before round number = population size; with a
\* round limit below the population size a run ends with at least population
\* size - round limit live sheep and logs 'Maximum rounds reached'.
C20_AtMostOneDeathPerRound ==
    /\ \A k \in 1 .. Len(alive_csv) :
         /\ alive_csv[k][2] >= num_sheep - k
         /\ alive_csv[k][2] = 0 => k >= num_sheep
    /\ (pc = "done" /\ max_rounds < num_sheep) =>
         /\ num_alive_sheep >= num_sheep - max_rounds
         /\ LastLogged = LimitMessage

\* A run of one round with two sheep ended after a capture.
C20_Witness ==
    /\ pc = "done"
    /\ max_rounds = 1
    /\ num_sheep = 2
    /\ num_alive_sheep = 1

====
